---- MODULE Spec2Model ----
(***************************************************************************)
(* Model of src/addons/server/reliverse/trpc.ts: the tRPC procedure        *)
(* variants publicAction, protectedAction, protectedBoardAction and        *)
(* cachedDataLayer(tag), as chains of middleware steps around a handler.   *)
(*                                                                         *)
(* One procedure call runs at a time.  A call descends through the steps   *)
(* of its variant (each step calls options.next), reaches the handler or   *)
(* a throwing step, and then unwinds through the steps that are awaiting   *)
(* their downstream result.  A throw inside a step is turned by the        *)
(* procedure builder into a failed result handed to the step above.        *)
(* Several calls may happen inside one request scope; createContext is     *)
(* wrapped in cache() and is memoized for the lifetime of that scope.      *)
(* The store behind unstable_cache outlives requests.                      *)
(***************************************************************************)
EXTENDS Integers, Sequences, FiniteSets, TLC

\* ---------------------------------------------------------------- bounds
MaxCallsPerRequest == 2
MaxValue == 2

\* ---------------------------------------------------------------- domains
Users == {"u1", "u2"}
NoSession == "none"
Sessions == Users \cup {NoSession}

BoardIds == {"b1", "b2", "b3"}
BadInput == "bad"
Inputs == BoardIds \cup {BadInput}

Tags == {"t1", "t2"}
Values == 1..MaxValue
Variants == {"public", "protected", "board", "cached"}
HandlerErrors == {"NOT_FOUND", "INTERNAL_SERVER_ERROR"}

NoBoard == [id |-> "none", ownerId |-> "none"]
NoData == [owner |-> "none", v |-> 0]
NoMemo == [log |-> "none", user |-> "none"]

\* what a call of each variant is given: only protectedBoardAction declares
\* an input schema, only cachedDataLayer takes a tag; the payloads of the
\* other variants are opaque to the steps
Payloads == {"b1", "b2"}
InputsOf(v) ==
  CASE v = "board" -> Inputs
    [] v = "cached" -> Payloads
    [] OTHER -> {"b1"}
TagsOf(v) == IF v = "cached" THEN Tags ELSE {"t1"}

\* a middleware result: res.ok with res.data, or a failure with its error
NoRes == [status |-> "none", data |-> NoData, code |-> "none", origin |-> "none"]
OkRes(d) == [status |-> "ok", data |-> d, code |-> "none", origin |-> "none"]
ErrRes(c, o) == [status |-> "err", data |-> NoData, code |-> c, origin |-> o]

NoEntry == [res |-> NoRes, tags |-> {}]

VARIABLES
  isDev,          \* t._config.isDev
  boards,         \* the boards table: set of rows [id, ownerId]
  cacheStore,     \* the store behind unstable_cache: key -> entry
  ctxMemo,        \* memo of cache(createContext) in the current request scope
  createCount,    \* executions of createContext's body in the current scope
  callsInRequest, \* procedure calls started in the current request scope
  pc,             \* position of the current call
  variant,        \* which procedure variant is being called
  input,          \* the call's input payload
  cacheTag,       \* the tag given to cachedDataLayer
  context,        \* the base step's local `context`
  ctx,            \* options.ctx as seen by the step about to run
  stack,          \* steps awaiting the result of options.next
  res,            \* the result travelling up the chain
  outcome,        \* what the call returned to its caller
  logs,           \* entries written to log by the current call
  trace,          \* step events of the current call, in order
  handlerCalls,   \* invocations of the handler by the current call
  handlerRes,     \* what the handler returned or threw
  authUser,       \* what authjs() returned inside the auth step
  cacheHit,       \* "hit" / "miss" once the caching step has looked up
  history         \* per user: input of the call that stored, and whether the
                  \* latest callback run for that user failed

vars == <<isDev, boards, cacheStore, ctxMemo, createCount, callsInRequest,
          pc, variant, input, cacheTag, context, ctx, stack, res, outcome,
          logs, trace, handlerCalls, handlerRes, authUser, cacheHit, history>>

envVars == <<isDev, boards>>
callId == <<variant, input, cacheTag>>

\* ---------------------------------------------------------------- helpers
EmptyCtx == [k \in {} |-> NoSession]

\* { ...a, ...b }
MergeCtxReplace(a, b) == b
MergeCtxPriorWins(a, b) ==
  [k \in (DOMAIN a) \cup (DOMAIN b) |-> IF k \in DOMAIN a THEN a[k] ELSE b[k]]
MergeCtx(a, b) ==
  [k \in (DOMAIN a) \cup (DOMAIN b) |-> IF k \in DOMAIN b THEN b[k] ELSE a[k]]

\* options.ctx.<k>: a field that is not there reads as undefined
Field(c, k) == IF k \in DOMAIN c THEN c[k] ELSE "undefined"

\* the steps of each variant, outermost first
ChainBoardFirst(v) ==
  CASE v = "public" -> <<"base">>
    [] v = "protected" -> <<"base", "auth">>
    [] v = "board" -> <<"base", "input", "board", "auth">>
    [] v = "cached" -> <<"base", "auth", "cache">>
ChainCacheFirst(v) ==
  CASE v = "public" -> <<"base">>
    [] v = "protected" -> <<"base", "auth">>
    [] v = "board" -> <<"base", "auth", "input", "board">>
    [] v = "cached" -> <<"base", "cache", "auth">>
ChainPublicAuth(v) ==
  CASE v = "public" -> <<"base", "auth">>
    [] v = "protected" -> <<"base", "auth">>
    [] v = "board" -> <<"base", "auth", "input", "board">>
    [] v = "cached" -> <<"base", "auth", "cache">>
Chain(v) ==
  CASE v = "public" -> <<"base">>
    [] v = "protected" -> <<"base", "auth">>
    [] v = "board" -> <<"base", "auth", "input", "board">>
    [] v = "cached" -> <<"base", "auth", "cache">>

\* where options.next() of the step on top of stack s leads
NextStep(v, s) ==
  IF Len(s) < Len(Chain(v)) THEN Chain(v)[Len(s) + 1] ELSE "handler"

Pop(s) == SubSeq(s, 1, Len(s) - 1)
Top(s) == s[Len(s)]

\* cache(): the memoized result is reused when there is one
MemoHitNever(memo) == FALSE
MemoHit(memo) == memo # NoMemo

\* if (!user)
NoUserNever(user) == FALSE
NoUser(user) == user = NoSession

\* z.object({ boardId: z.string() })
InputValid(in) == in \in BoardIds

\* db.query.boards.findFirst({ where: and(eq(ownerId, userId), eq(id, boardId)) })
findFirstById(rows, userId, boardId) ==
  LET m == {r \in rows : r.id = boardId}
  IN IF m = {} THEN NoBoard ELSE CHOOSE r \in m : TRUE
findFirst(rows, userId, boardId) ==
  LET m == {r \in rows : r.ownerId = userId /\ r.id = boardId}
  IN IF m = {} THEN NoBoard ELSE CHOOSE r \in m : TRUE

\* key parts of unstable_cache: [options.ctx.user.id]
CacheKeyShared(user) == "u1"
CacheKeyWithInput(user) ==
  IF input = "b1" THEN user ELSE IF user = "u1" THEN "u1/other" ELSE "u2/other"
CacheKey(user) == user

\* the entry found under a key; a key without entry is a miss
Lookup(store, key) == IF key \in DOMAIN store THEN store[key] ELSE NoEntry

\* the entry written after the callback returned res
StoreDropped(store, key, r, tag) == store
Store(store, key, r, tag) ==
  [k \in (DOMAIN store) \cup {key} |->
     IF k = key THEN [res |-> r, tags |-> {tag}] ELSE store[k]]

\* if (!res.ok)
CallbackThrowsNever(r) == FALSE
CallbackThrows(r) == r.status # "ok"

\* if (!res.ok) throw new TRPCError({ code: "INTERNAL_SERVER_ERROR" })
CallbackResultRethrow(r) == r
CallbackResult(r) ==
  IF CallbackThrows(r) THEN ErrRes("INTERNAL_SERVER_ERROR", "cache") ELSE r

\* log.info({ duration, res: res.data }) / log.error({ duration, error: res.error })
LogEntryAlwaysInfo(r) ==
  [level |-> "info", data |-> r.data, code |-> "none", origin |-> "none"]
LogEntry(r) ==
  IF r.status = "ok"
    THEN [level |-> "info", data |-> r.data, code |-> "none", origin |-> "none"]
    ELSE [level |-> "error", data |-> NoData, code |-> r.code, origin |-> r.origin]

\* return res
BaseReturnMasked(r) ==
  IF r.status = "ok" THEN r ELSE ErrRes("INTERNAL_SERVER_ERROR", "base")
BaseReturn(r) == r

\* ---------------------------------------------------------------- Init
Init ==
  /\ isDev \in BOOLEAN
  /\ boards = {[id |-> "b1", ownerId |-> "u1"], [id |-> "b2", ownerId |-> "u2"]}
  /\ cacheStore = [k \in Users |-> NoEntry]
  /\ ctxMemo = NoMemo
  /\ createCount = 0
  /\ callsInRequest = 0
  /\ pc = "idle"
  /\ variant = "public"
  /\ input = "b1"
  /\ cacheTag = "t1"
  /\ context = NoMemo
  /\ ctx = EmptyCtx
  /\ stack = <<>>
  /\ res = NoRes
  /\ outcome = NoRes
  /\ logs = <<>>
  /\ trace = <<>>
  /\ handlerCalls = 0
  /\ handlerRes = NoRes
  /\ authUser = "unset"
  /\ cacheHit = "none"
  /\ history = [u \in Users |-> [storedInput |-> "none", failed |-> FALSE]]

ResetCall ==
  /\ context' = NoMemo
  /\ ctx' = EmptyCtx
  /\ stack' = <<>>
  /\ res' = NoRes
  /\ outcome' = NoRes
  /\ logs' = <<>>
  /\ trace' = <<>>
  /\ handlerCalls' = 0
  /\ handlerRes' = NoRes
  /\ authUser' = "unset"
  /\ cacheHit' = "none"

\* ---------------------------------------------------------------- actions
\* a new request scope begins: the memo of cache() starts empty
NewRequest ==
  /\ pc \in {"idle", "done"}
  /\ callsInRequest > 0
  /\ pc' = "idle"
  /\ ctxMemo' = NoMemo
  /\ createCount' = 0
  /\ callsInRequest' = 0
  /\ ResetCall
  /\ UNCHANGED <<history, envVars, cacheStore, callId>>

\* the caller invokes a procedure of some variant
StartCall ==
  /\ pc \in {"idle", "done"}
  /\ callsInRequest < MaxCallsPerRequest
  /\ \E v \in Variants :
       \E in \in InputsOf(v), tag \in TagsOf(v) :
         /\ variant' = v
         /\ input' = in
         /\ cacheTag' = tag
  /\ callsInRequest' = callsInRequest + 1
  /\ pc' = "base"
  /\ ResetCall
  /\ UNCHANGED <<history, envVars, cacheStore, ctxMemo, createCount>>

\* base step, line 39: const context = await createContext()
BaseCreateContext ==
  /\ pc = "base"
  /\ IF MemoHit(ctxMemo)
       THEN /\ context' = ctxMemo
            /\ UNCHANGED <<ctxMemo, createCount>>
       ELSE /\ \E session \in Sessions :
                 ctxMemo' = [log |-> "console", user |-> session]
            /\ context' = ctxMemo'
            /\ createCount' = createCount + 1
  /\ trace' = Append(trace, "ctx")
  /\ pc' = IF isDev THEN "base_delay" ELSE "base_next"
  /\ UNCHANGED <<history, envVars, cacheStore, callsInRequest, callId, ctx, stack, res,
                 outcome, logs, handlerCalls, handlerRes, authUser, cacheHit>>

\* base step, lines 45-50: artificial delay in dev
BaseDelay ==
  /\ pc = "base_delay"
  /\ trace' = Append(trace, "delay")
  /\ pc' = "base_next"
  /\ UNCHANGED <<history, envVars, cacheStore, ctxMemo, createCount, callsInRequest,
                 callId, context, ctx, stack, res, outcome, logs, handlerCalls, handlerRes,
                 authUser, cacheHit>>

\* base step, lines 54-59: options.next({ ctx: { ...context, log } })
BaseNext ==
  /\ pc = "base_next"
  /\ ctx' = MergeCtx(ctx, MergeCtx(context, [log |-> context.log]))
  /\ stack' = Append(stack, "base")
  /\ trace' = Append(trace, "base_next")
  /\ pc' = NextStep(variant, stack')
  /\ UNCHANGED <<history, envVars, cacheStore, ctxMemo, createCount, callsInRequest,
                 callId, context, res, outcome, logs, handlerCalls, handlerRes, authUser,
                 cacheHit>>

\* auth step, lines 88-103
AuthStep ==
  /\ pc = "auth"
  /\ \E user \in Sessions :
       /\ authUser' = user
       /\ IF NoUser(user)
            THEN /\ res' = ErrRes("UNAUTHORIZED", "auth")
                 /\ pc' = "unwind"
                 /\ UNCHANGED <<ctx, stack>>
            ELSE /\ ctx' = MergeCtx(ctx, MergeCtx(ctx, [user |-> user]))
                 /\ stack' = Append(stack, "auth")
                 /\ pc' = NextStep(variant, stack')
                 /\ res' = res
  /\ trace' = Append(trace, "auth")
  /\ UNCHANGED <<history, envVars, cacheStore, ctxMemo, createCount, callsInRequest,
                 callId, context, outcome, logs, handlerCalls, handlerRes, cacheHit>>

\* input parsing, lines 110-114
InputStep ==
  /\ pc = "input"
  /\ IF InputValid(input)
       THEN /\ stack' = Append(stack, "input")
            /\ pc' = NextStep(variant, stack')
            /\ res' = res
       ELSE /\ res' = ErrRes("BAD_REQUEST", "input")
            /\ pc' = "unwind"
            /\ stack' = stack
  /\ trace' = Append(trace, "input")
  /\ UNCHANGED <<history, envVars, cacheStore, ctxMemo, createCount, callsInRequest,
                 callId, context, ctx, outcome, logs, handlerCalls, handlerRes, authUser,
                 cacheHit>>

\* authorization step, lines 115-135
BoardStep ==
  /\ pc = "board"
  /\ LET board == findFirst(boards, Field(ctx, "user"), input)
     IN IF board = NoBoard
          THEN /\ res' = ErrRes("FORBIDDEN", "board")
               /\ pc' = "unwind"
               /\ UNCHANGED <<ctx, stack>>
          ELSE /\ ctx' = MergeCtx(ctx, [board |-> board])
               /\ stack' = Append(stack, "board")
               /\ pc' = NextStep(variant, stack')
               /\ res' = res
  /\ trace' = Append(trace, "board")
  /\ UNCHANGED <<history, envVars, cacheStore, ctxMemo, createCount, callsInRequest,
                 callId, context, outcome, logs, handlerCalls, handlerRes, authUser,
                 cacheHit>>

\* caching step, lines 139-156: lookup under the key; a miss runs the callback
CacheStep ==
  /\ pc = "cache"
  /\ LET key == CacheKey(Field(ctx, "user"))
     IN IF Lookup(cacheStore, key) # NoEntry
          THEN /\ cacheHit' = "hit"
               /\ res' = Lookup(cacheStore, key).res
               /\ pc' = "unwind"
               /\ stack' = stack
          ELSE /\ cacheHit' = "miss"
               /\ stack' = Append(stack, "cache")
               /\ pc' = NextStep(variant, stack')
               /\ res' = res
  /\ trace' = Append(trace, "cache")
  /\ UNCHANGED <<history, envVars, cacheStore, ctxMemo, createCount, callsInRequest,
                 callId, context, ctx, outcome, logs, handlerCalls, handlerRes, authUser>>

\* the procedure's handler (query / mutation), the end of every chain
Handler ==
  /\ pc = "handler"
  /\ \/ \E v \in Values : res' = OkRes([owner |-> Field(ctx, "user"), v |-> v])
     \/ \E c \in HandlerErrors : res' = ErrRes(c, "handler")
  /\ handlerRes' = res'
  /\ handlerCalls' = handlerCalls + 1
  /\ trace' = Append(trace, "handler")
  /\ pc' = "unwind"
  /\ UNCHANGED <<history, envVars, cacheStore, ctxMemo, createCount, callsInRequest,
                 callId, context, ctx, stack, outcome, logs, authUser, cacheHit>>

\* `return options.next(...)` of the auth, input and authorization steps
PassThrough ==
  /\ pc = "unwind"
  /\ stack # <<>>
  /\ Top(stack) \in {"auth", "input", "board"}
  /\ stack' = Pop(stack)
  /\ UNCHANGED <<history, envVars, cacheStore, ctxMemo, createCount, callsInRequest, pc,
                 callId, context, ctx, res, outcome, logs, trace, handlerCalls, handlerRes,
                 authUser, cacheHit>>

\* caching step, lines 142-150: the callback resumes after options.next()
CacheCallbackReturn ==
  /\ pc = "unwind"
  /\ stack # <<>>
  /\ Top(stack) = "cache"
  /\ res' = CallbackResult(res)
  /\ cacheStore' = IF CallbackThrows(res)
                     THEN cacheStore
                     ELSE Store(cacheStore, CacheKey(Field(ctx, "user")), res', cacheTag)
  /\ history' = IF authUser \in Users
                  THEN [history EXCEPT ![authUser] =
                          IF res.status = "ok"
                            THEN [storedInput |-> input, failed |-> FALSE]
                            ELSE [@ EXCEPT !.failed = TRUE]]
                  ELSE history
  /\ stack' = Pop(stack)
  /\ trace' = Append(trace, "cache_ret")
  /\ UNCHANGED <<envVars, ctxMemo, createCount, callsInRequest, pc, callId,
                 context, ctx, outcome, logs, handlerCalls, handlerRes, authUser, cacheHit>>

\* base step, lines 61-75: log the result and return it to the caller
BaseLogReturn ==
  /\ pc = "unwind"
  /\ stack # <<>>
  /\ Top(stack) = "base"
  /\ logs' = Append(logs, LogEntry(res))
  /\ outcome' = BaseReturn(res)
  /\ stack' = Pop(stack)
  /\ trace' = Append(trace, "log")
  /\ pc' = "done"
  /\ UNCHANGED <<history, envVars, cacheStore, ctxMemo, createCount, callsInRequest,
                 callId, context, ctx, res, handlerCalls, handlerRes, authUser, cacheHit>>

Next ==
  \/ NewRequest
  \/ StartCall
  \/ BaseCreateContext
  \/ BaseDelay
  \/ BaseNext
  \/ AuthStep
  \/ InputStep
  \/ BoardStep
  \/ CacheStep
  \/ Handler
  \/ PassThrough
  \/ CacheCallbackReturn
  \/ BaseLogReturn

Spec == Init /\ [][Next]_vars

TypeOK ==
  /\ isDev \in BOOLEAN
  /\ pc \in {"idle", "base", "base_delay", "base_next", "auth", "input",
             "board", "cache", "handler", "unwind", "done"}
  /\ variant \in Variants
  /\ input \in Inputs
  /\ cacheTag \in Tags
  /\ createCount \in 0..MaxCallsPerRequest
  /\ callsInRequest \in 0..MaxCallsPerRequest
  /\ handlerCalls \in 0..1
  /\ handlerRes.status \in {"none", "ok", "err"}
  /\ authUser \in Sessions \cup {"unset"}
  /\ cacheHit \in {"none", "hit", "miss"}
  /\ res.status \in {"none", "ok", "err"}
  /\ outcome.status \in {"none", "ok", "err"}
  /\ DOMAIN cacheStore = Users
  /\ \A u \in Users : history[u].storedInput \in Inputs \cup {"none"}

\* ---------------------------------------------------------------- claims
Events == {trace[i] : i \in 1..Len(trace)}

\* C1: a call of protectedAction whose auth step found no session runs no
\* step after the auth step and no handler, and ends with UNAUTHORIZED.
C1_UnauthorizedShortCircuit ==
  (variant = "protected" /\ authUser = NoSession) =>
    /\ handlerCalls = 0
    /\ Events \cap {"input", "board", "cache", "handler", "cache_ret"} = {}
    /\ pc \in {"unwind", "done"}
    /\ res.status = "err" /\ res.code = "UNAUTHORIZED"
    /\ pc = "done" => (outcome.status = "err" /\ outcome.code = "UNAUTHORIZED")

C1_Witness ==
  /\ variant = "protected"
  /\ authUser = NoSession
  /\ pc = "done"
  /\ outcome.code = "UNAUTHORIZED"

\* C2: an authenticated call of protectedBoardAction whose boardId names no
\* board owned by the current user never reaches the handler and ends with
\* FORBIDDEN.
NotOwned(user, boardId) ==
  \A r \in boards : ~(r.id = boardId /\ r.ownerId = user)

C2_ForbiddenShortCircuit ==
  (/\ variant = "board"
   /\ authUser \in Users
   /\ input \in BoardIds
   /\ NotOwned(authUser, input)) =>
    /\ handlerCalls = 0
    /\ pc = "done" => (outcome.status = "err" /\ outcome.code = "FORBIDDEN")

C2_Witness ==
  /\ variant = "board"
  /\ authUser = "u1"
  /\ input = "b2"
  /\ \E r \in boards : r.id = "b2" /\ r.ownerId = "u2"
  /\ pc = "done"
  /\ outcome.code = "FORBIDDEN"

\* C3: inside one request scope the body of createContext runs at most once,
\* and every base step past its createContext call holds the memoized result.
C3_ContextCreatedOnce ==
  /\ createCount <= 1
  /\ pc \notin {"idle", "base"} =>
       (createCount = 1 /\ ctxMemo # NoMemo /\ context = ctxMemo)

C3_Witness ==
  /\ callsInRequest = 2
  /\ pc = "done"
  /\ createCount = 1
  /\ context = ctxMemo

\* C4: in the cached variant a miss invokes the downstream computation exactly
\* once and stores its successful result under the declared tag; a hit does
\* not invoke the downstream computation and returns the stored result.
C4_CacheMissOnceHitNone ==
  variant = "cached" =>
    /\ (cacheHit = "miss" /\ pc = "done") =>
         /\ handlerCalls = 1
         /\ outcome.status = "ok" =>
              cacheStore[authUser] = [res |-> handlerRes, tags |-> {cacheTag}]
    /\ cacheHit = "hit" =>
         /\ handlerCalls = 0
         /\ cacheStore[authUser] # NoEntry
         /\ pc = "done" => (outcome.status = "ok" /\ outcome = cacheStore[authUser].res)

C4_Witness ==
  /\ variant = "cached"
  /\ cacheHit = "hit"
  /\ pc = "done"
  /\ cacheTag \in cacheStore[authUser].tags
  /\ handlerCalls = 0
  /\ outcome = cacheStore[authUser].res

\* C5: in the cached variant a failed downstream result, whatever its error,
\* leaves the call with an INTERNAL_SERVER_ERROR raised by the caching step.
C5_DownstreamFailureCollapsed ==
  (variant = "cached" /\ handlerRes.status = "err" /\ pc = "done") =>
    /\ outcome.status = "err"
    /\ outcome.code = "INTERNAL_SERVER_ERROR"
    /\ outcome.origin = "cache"

C5_Witness ==
  /\ variant = "cached"
  /\ handlerRes.status = "err"
  /\ handlerRes.code = "NOT_FOUND"
  /\ pc = "done"
  /\ outcome.code = "INTERNAL_SERVER_ERROR"

\* C6: a result stored while serving one user is never returned to a call
\* whose authenticated user is another user; every entry of the store sits
\* under the key of the user it was computed for.
C6_CacheKeyedByUser ==
  /\ \A u \in Users :
       cacheStore[u] # NoEntry => cacheStore[u].res.data.owner = u
  /\ (variant = "cached" /\ pc = "done" /\ outcome.status = "ok") =>
       outcome.data.owner = authUser

C6_Witness ==
  /\ variant = "cached"
  /\ cacheHit = "hit"
  /\ authUser = "u2"
  /\ cacheStore["u1"] # NoEntry
  /\ pc = "done"
  /\ outcome.data.owner = "u2"

\* C7: the steps of a call run in one strict order: context creation, dev
\* delay, the base step's next, auth, then input parsing and authorization or
\* caching, then the handler, and on the way back the caching callback before
\* the base step's log; the board lookup comes after an auth step that found a
\* session, and the base step resumes only when nothing downstream is pending.
Rank(e) ==
  CASE e = "ctx" -> 1
    [] e = "delay" -> 2
    [] e = "base_next" -> 3
    [] e = "auth" -> 4
    [] e = "input" -> 5
    [] e = "board" -> 6
    [] e = "cache" -> 6
    [] e = "handler" -> 7
    [] e = "cache_ret" -> 8
    [] e = "log" -> 9

C7_StrictSequence ==
  /\ \A i, j \in 1..Len(trace) : i < j => Rank(trace[i]) < Rank(trace[j])
  /\ "board" \in Events => ("auth" \in Events /\ authUser \in Users)
  /\ "cache" \in Events => ("auth" \in Events /\ authUser \in Users)
  /\ "auth" \in Events => "base_next" \in Events
  /\ "base_next" \in Events => "ctx" \in Events
  /\ (isDev /\ "base_next" \in Events) => "delay" \in Events
  /\ "cache_ret" \in Events => "handler" \in Events
  /\ "log" \in Events => (stack = <<>> /\ pc = "done" /\ res # NoRes)
  /\ (variant # "public" /\ "handler" \in Events) => "auth" \in Events
  /\ (variant = "board" /\ "handler" \in Events) => "board" \in Events
  /\ (variant = "cached" /\ "handler" \in Events) => "cache" \in Events

C7_Witness ==
  /\ variant = "board"
  /\ isDev
  /\ pc = "done"
  /\ trace = <<"ctx", "delay", "base_next", "auth", "input", "board", "handler", "log">>

\* C8: once a step has raised a failure, no further step or handler runs, the
\* failure travels up unchanged and it is the call's outcome.
RaisedByStep(r) ==
  r.status = "err" /\ r.origin \in {"auth", "input", "board", "cache"}

C8_FailurePassesUnchanged ==
  [][(pc = "unwind" /\ RaisedByStep(res)) =>
       /\ res' = res
       /\ handlerCalls' = handlerCalls
       /\ pc' \in {"unwind", "done"}
       /\ trace' \in {trace, Append(trace, "log")}
       /\ pc' = "done" => outcome' = res]_vars

C8_Witness ==
  /\ variant = "board"
  /\ input = "b3"
  /\ pc = "done"
  /\ outcome = ErrRes("FORBIDDEN", "board")
  /\ Len(logs) = 1
  /\ logs[1].level = "error"

\* C9: every call writes exactly one log entry, when the downstream chain has
\* completed: an info entry with the payload of a successful result, else an
\* error entry with the error; and the call's outcome is the downstream
\* result itself.
C9_OneLogEntry ==
  /\ pc # "done" => logs = <<>>
  /\ pc = "done" =>
       /\ Len(logs) = 1
       /\ stack = <<>>
       /\ outcome = res
       /\ res.status \in {"ok", "err"}
       /\ res.status = "ok" =>
            (logs[1].level = "info" /\ logs[1].data = res.data)
       /\ res.status = "err" =>
            /\ logs[1].level = "error"
            /\ logs[1].code = res.code
            /\ logs[1].origin = res.origin

C9_Witness ==
  /\ variant = "public"
  /\ pc = "done"
  /\ Len(logs) = 1
  /\ logs[1].level = "error"
  /\ logs[1].code = "NOT_FOUND"
  /\ outcome = handlerRes

\* C10: when the handler of protectedBoardAction runs, its context holds the
\* board named by the input, owned by the context's user, next to the log and
\* the non-null user put there by the earlier steps.
C10_BoardInContext ==
  (variant = "board" /\ handlerCalls = 1) =>
    /\ {"log", "user", "board"} \subseteq DOMAIN ctx
    /\ ctx["log"] = "console"
    /\ ctx["user"] \in Users
    /\ ctx["board"] \in boards
    /\ ctx["board"].id = input
    /\ ctx["board"].ownerId = ctx["user"]

C10_Witness ==
  /\ variant = "board"
  /\ handlerCalls = 1
  /\ "board" \in DOMAIN ctx
  /\ ctx["board"] = [id |-> "b2", ownerId |-> "u2"]
  /\ ctx["user"] = "u2"

\* C11: in the authenticated, board-scoped and cached variants every step
\* after the auth step and the handler see as user the session found by the
\* auth step's own lookup, never null, whatever user context creation had put
\* in the context.
AfterAuth ==
  /\ variant # "public"
  /\ "auth" \in Events
  /\ Events \cap {"input", "board", "cache", "handler"} # {}

C11_AuthUserInContext ==
  /\ AfterAuth =>
       /\ authUser \in Users
       /\ "user" \in DOMAIN ctx
       /\ ctx["user"] = authUser
       /\ ctx["user"] # NoSession
  /\ (variant # "public" /\ pc \in {"input", "board", "cache", "handler"}) =>
       (authUser \in Users /\ Field(ctx, "user") = authUser)

C11_Witness ==
  /\ variant = "cached"
  /\ handlerCalls = 1
  /\ context["user"] = NoSession
  /\ authUser = "u2"
  /\ ctx["user"] = "u2"
  /\ handlerRes.data.owner = "u2"

\* C12: a failed downstream result is never stored: every entry of the store
\* is a successful result, the store holds nothing for the user after a call
\* whose downstream computation failed, and the next cached call of a user
\* whose latest computation failed is a miss that invokes the computation
\* again.
C12_FailureNotStored ==
  /\ \A k \in DOMAIN cacheStore :
       cacheStore[k] # NoEntry => cacheStore[k].res.status = "ok"
  /\ (variant = "cached" /\ handlerRes.status = "err" /\ "cache_ret" \in Events) =>
       (authUser \in Users /\ cacheStore[authUser] = NoEntry)
  /\ (variant = "cached" /\ cacheHit # "none" /\ authUser \in Users) =>
       (history[authUser].failed =>
          /\ cacheHit = "miss"
          /\ pc \in {"unwind", "done"} => handlerCalls = 1)

C12_Witness ==
  /\ variant = "cached"
  /\ authUser \in Users
  /\ history[authUser].failed
  /\ cacheHit = "miss"
  /\ handlerCalls = 1
  /\ "cache_ret" \notin Events
  /\ cacheStore[authUser] = NoEntry

\* C13: the cache lookup ignores the input payload: while a result computed
\* for a user is in the store, a cached call of that user, whatever its input,
\* is a hit, is served that result and does not invoke the downstream
\* computation.
StoredFor(user) ==
  {k \in DOMAIN cacheStore :
     cacheStore[k] # NoEntry /\ cacheStore[k].res.data.owner = user}

C13_LookupIgnoresInput ==
  (variant = "cached" /\ cacheHit # "none" /\ "cache_ret" \notin Events) =>
    /\ cacheHit = "miss" =>
         (StoredFor(authUser) = {} /\ history[authUser].storedInput = "none")
    /\ cacheHit = "hit" =>
         /\ history[authUser].storedInput \in Payloads
         /\ handlerCalls = 0
         /\ res = cacheStore[authUser].res
         /\ pc = "done" => outcome = cacheStore[authUser].res

C13_Witness ==
  /\ variant = "cached"
  /\ cacheHit = "hit"
  /\ authUser \in Users
  /\ history[authUser].storedInput = "b1"
  /\ input = "b2"
  /\ cacheTag \in cacheStore[authUser].tags
  /\ handlerCalls = 0
  /\ pc = "done"
  /\ outcome = cacheStore[authUser].res

\* C14: in the cached variant a call without session ends with UNAUTHORIZED
\* and performs no cache lookup, no cache write and no downstream invocation,
\* also when the store holds entries.
C14_AuthBeforeCache ==
  /\ (variant = "cached" /\ authUser = NoSession) =>
       /\ cacheHit = "none"
       /\ handlerCalls = 0
       /\ Events \cap {"cache", "handler", "cache_ret"} = {}
       /\ res = ErrRes("UNAUTHORIZED", "auth")
       /\ pc = "done" => outcome = ErrRes("UNAUTHORIZED", "auth")
  /\ (variant = "cached" /\ "cache" \in Events) =>
       (authUser \in Users /\ "auth" \in Events)

C14_Witness ==
  /\ variant = "cached"
  /\ authUser = NoSession
  /\ cacheStore["u1"] # NoEntry
  /\ cacheStore["u2"] # NoEntry
  /\ pc = "done"
  /\ outcome.code = "UNAUTHORIZED"
  /\ handlerCalls = 0

\* C15: publicAction is the base step alone: no auth, input, authorization or
\* caching step runs, its outcome is what the handler produced, never a
\* failure raised by a step of this file, and the handler is invoked also
\* without session, with the null user of context creation in its context.
C15_PublicBaseOnly ==
  variant = "public" =>
    /\ Events \subseteq {"ctx", "delay", "base_next", "handler", "log"}
    /\ authUser = "unset"
    /\ ~RaisedByStep(res)
    /\ handlerCalls = 1 =>
         /\ {"log", "user"} \subseteq DOMAIN ctx
         /\ ctx["user"] = context["user"]
         /\ ctx["user"] = ctxMemo["user"]
    /\ pc \in {"unwind", "done"} => (handlerCalls = 1 /\ res = handlerRes)
    /\ pc = "done" =>
         /\ outcome = handlerRes
         /\ outcome.code \notin {"UNAUTHORIZED", "FORBIDDEN"}

C15_Witness ==
  /\ variant = "public"
  /\ pc = "done"
  /\ handlerCalls = 1
  /\ ctx["user"] = NoSession
  /\ outcome.status = "ok"
  /\ outcome.data.owner = NoSession

====
